---- MODULE Spec2Model ----
(***************************************************************************)
(* Event catalog (django-api/events): the persisted tables of             *)
(* events/models.py, the post_save/post_delete receivers of                *)
(* events/signals.py, the shared Django cache, the value objects of        *)
(* events/domain/value_objects.py and the three operations of              *)
(* events/services/event_service.py.                                       *)
(*                                                                         *)
(* The service methods and DjangoEventStore methods of this repository     *)
(* are bodies of `raise NotImplementedError`, and the three signal         *)
(* receivers are bodies of `pass`; they are modelled as exactly that.      *)
(***************************************************************************)
EXTENDS Integers, Sequences, FiniteSets, TLC

(***************************************************************************)
(* Bounds of the model.                                                    *)
(***************************************************************************)
MaxTime == 2
MaxQuantity == 1
MaxCacheEntries == 1
MaxCoefficient == 12
MaxScale == 3
MaxExponent == 1
MaxCapacity == 3

(***************************************************************************)
(* Primary keys.  A UUID value is its 32 lowercase hexadecimal digits; the  *)
(* rows of the event table are named e1, e2 and Uuid gives their id.       *)
(***************************************************************************)
Rep(c, n) == [i \in 1..n |-> c]

UuidE1 == Rep("0", 31) \o <<"a">>
UuidE2 == Rep("0", 31) \o <<"b">>

EventIds == {"e1", "e2"}
Uuid(e) == IF e = "e1" THEN UuidE1 ELSE UuidE2
SessionIds == {"s1"}
TicketTypeIds == {"t1"}
Names == {"n1", "n2"}
Times == 1..MaxTime
Quantities == 0..MaxQuantity

NoRow == [absent |-> TRUE]

(***************************************************************************)
(* uuid.UUID(hex) as called by EventId.from_string: drop "urn:" and        *)
(* "uuid:", strip braces at both ends, drop hyphens, require 32            *)
(* characters, read them as base 16 (case-insensitively).  The characters  *)
(* of RawIds are hexadecimal digits, letters, hyphens and braces only.     *)
(***************************************************************************)
HexLower == {"0", "1", "2", "3", "4", "5", "6", "7", "8", "9",
             "a", "b", "c", "d", "e", "f"}
HexUpper == {"A", "B", "C", "D", "E", "F"}

Lower(c) ==
    CASE c = "A" -> "a" [] c = "B" -> "b" [] c = "C" -> "c"
      [] c = "D" -> "d" [] c = "E" -> "e" [] c = "F" -> "f"
      [] OTHER -> c

StartsWith(s, pat) ==
    /\ Len(s) >= Len(pat)
    /\ SubSeq(s, 1, Len(pat)) = pat

RECURSIVE Replace(_, _)
Replace(s, pat) ==
    IF s = <<>> THEN <<>>
    ELSE IF StartsWith(s, pat) THEN Replace(SubSeq(s, Len(pat) + 1, Len(s)), pat)
    ELSE <<Head(s)>> \o Replace(Tail(s), pat)

RECURSIVE LStrip(_, _)
LStrip(s, cs) ==
    IF s # <<>> /\ Head(s) \in cs THEN LStrip(Tail(s), cs) ELSE s

RECURSIVE RStrip(_, _)
RStrip(s, cs) ==
    IF s # <<>> /\ s[Len(s)] \in cs THEN RStrip(SubSeq(s, 1, Len(s) - 1), cs) ELSE s

Strip(s, cs) == RStrip(LStrip(s, cs), cs)

ValueError == [raises |-> TRUE, value |-> <<>>]

UUID(hex) ==
    LET h1 == Replace(Replace(hex, <<"u", "r", "n", ":">>), <<"u", "u", "i", "d", ":">>)
        h2 == Replace(Strip(h1, {"{", "}"}), <<"-">>)
    IN  IF Len(h2) # 32 THEN ValueError
        ELSE IF \E i \in 1..32 : h2[i] \notin (HexLower \cup HexUpper) THEN ValueError
        ELSE [raises |-> FALSE, value |-> [i \in 1..32 |-> Lower(h2[i])]]

from_string(value) == UUID(value)

(***************************************************************************)
(* Raw identifiers a caller passes to the service.                         *)
(***************************************************************************)
Hyphenated(u) ==
    SubSeq(u, 1, 8) \o <<"-">> \o SubSeq(u, 9, 12) \o <<"-">> \o SubSeq(u, 13, 16)
        \o <<"-">> \o SubSeq(u, 17, 20) \o <<"-">> \o SubSeq(u, 21, 32)

RawIds == {"e1", "e2", "e1-upper", "not-a-uuid"}

RawText(raw) ==
    CASE raw = "e1" -> Hyphenated(UuidE1)
      [] raw = "e2" -> Hyphenated(UuidE2)
      [] raw = "e1-upper" -> Rep("0", 31) \o <<"A">>
      [] raw = "not-a-uuid" -> <<"n", "o", "t", "-", "a", "-", "u", "u", "i", "d">>

\* EventId.from_string of each raw identifier, and the rows it names (at most one).
Parsed == [raw \in RawIds |-> from_string(RawText(raw))]
NamedRows == [raw \in RawIds |-> {e \in EventIds : Uuid(e) = Parsed[raw].value}]

(***************************************************************************)
(* Cache keys: events:list, events:{id}, events:{id}:sessions.             *)
(***************************************************************************)
ListKey == <<"events:list">>
EventKey(e) == <<"events:", e>>
SessionsKey(e) == <<"events:", e, ":sessions">>

Keys == {ListKey} \cup {EventKey(id) : id \in EventIds}
            \cup {SessionsKey(id) : id \in EventIds}

Miss == [hit |-> FALSE]
Hit(v) == [hit |-> TRUE, value |-> v]

VARIABLES
    events,      \* table events_event: id -> row or NoRow
    sessions,    \* table events_session: id -> row or NoRow
    ticket_types,\* table events_tickettype: id -> row or NoRow
    cache,       \* django.core.cache.cache: key -> value or Miss
    superseded,  \* history: keys populated when a mutation of their entity returned, not written since
    last         \* the most recent call (service or value object) and how it ended

vars == <<events, sessions, ticket_types, cache, superseded, last>>


(***************************************************************************)
(* Rows present in each table.                                             *)
(***************************************************************************)
Present(table) == {id \in DOMAIN table : table[id] # NoRow}

SessionsOf(e) == {s \in Present(sessions) : sessions[s].event = e}
TicketTypesOf(s) == {t \in Present(ticket_types) : ticket_types[t].session = s}

Orderings(S) ==
    {o \in [1..Cardinality(S) -> S] : \A i, j \in 1..Cardinality(S) : o[i] = o[j] => i = j}

(***************************************************************************)
(* Default orderings of the tables: Event by -created_at, Session by       *)
(* starts_at.  Rows with equal keys come back in either order.             *)
(***************************************************************************)
EventOrderings ==
    {o \in Orderings(Present(events)) :
        \A i, j \in DOMAIN o : i < j => events[o[i]].created_at >= events[o[j]].created_at}

SessionOrderings(e) ==
    {o \in Orderings(SessionsOf(e)) :
        \A i, j \in DOMAIN o : i < j => sessions[o[i]].starts_at <= sessions[o[j]].starts_at}

(***************************************************************************)
(* Domain entities (frozen dataclasses) built from rows.  A session's      *)
(* ticket types are held as a set: the table has one ticket type row.      *)
(***************************************************************************)
Event(id) ==
    [id |-> id, name |-> events[id].name, created_at |-> events[id].created_at]

TicketType(t) ==
    [id |-> t, session_id |-> ticket_types[t].session,
     quantity |-> ticket_types[t].quantity]

Session(s) ==
    [id |-> s, event_id |-> sessions[s].event, starts_at |-> sessions[s].starts_at,
     ticket_types |-> {TicketType(t) : t \in TicketTypesOf(s)}]

(***************************************************************************)
(* What the tables hold for a cache key, as entities.                      *)
(***************************************************************************)
KeyEvent(k) == k[2]

TableAnswers(k) ==
    IF k = ListKey THEN {[i \in DOMAIN o |-> Event(o[i])] : o \in EventOrderings}
    ELSE IF Len(k) = 2 THEN
        IF events[KeyEvent(k)] = NoRow THEN {} ELSE {Event(KeyEvent(k))}
    ELSE
        IF events[KeyEvent(k)] = NoRow THEN {}
        ELSE {[i \in DOMAIN o |-> Session(o[i])] : o \in SessionOrderings(KeyEvent(k))}

(***************************************************************************)
(* Keys section 4.7 prescribes for a mutated entity (history only).        *)
(***************************************************************************)
PrescribedEvent(e) == {ListKey, EventKey(e)}
PrescribedSession(e) == {SessionsKey(e)}
PrescribedTicketType(e) == {SessionsKey(e)}

Supersede(keys) == superseded \cup {k \in keys : cache[k].hit}

(***************************************************************************)
(* events/signals.py: the three receivers.  Each body is `pass`.           *)
(***************************************************************************)
\* A receiver that drops the whole subtree of the event (mutant).
invalidate_event_subtree(c, instance) ==
    [k \in Keys |->
        IF k \in {ListKey, EventKey(instance.id), SessionsKey(instance.id)} THEN Miss ELSE c[k]]

invalidate_event_cache(c, instance) == c

invalidate_session_cache(c, instance) == c

invalidate_ticket_type_cache(c, instance) == c

RECURSIVE SendAll(_, _, _)
SendAll(c, instances, kind) ==
    IF instances = {} THEN c
    ELSE LET i == CHOOSE x \in instances : TRUE
             c1 == CASE kind = "event" -> invalidate_event_cache(c, i)
                     [] kind = "session" -> invalidate_session_cache(c, i)
                     [] kind = "ticket_type" -> invalidate_ticket_type_cache(c, i)
         IN  SendAll(c1, instances \ {i}, kind)

(***************************************************************************)
(* Persistence layer (models.py, edited through admin.py): every save and  *)
(* delete runs the receiver of its model before it returns.                *)
(***************************************************************************)
LatestCreated ==
    IF Present(events) = {} THEN 1
    ELSE CHOOSE t \in Times : /\ \E e \in Present(events) : events[e].created_at = t
                              /\ \A e \in Present(events) : events[e].created_at <= t

SaveEvent(e, name) ==
    /\ \E t \in Times :
          /\ t >= LatestCreated
          /\ events' = [events EXCEPT ![e] =
                IF events[e] = NoRow THEN [name |-> name, created_at |-> t]
                ELSE [name |-> name, created_at |-> events[e].created_at]]
    /\ cache' = invalidate_event_cache(cache, [id |-> e])
    /\ superseded' = Supersede(PrescribedEvent(e))
    /\ UNCHANGED <<sessions, ticket_types, last>>

DeleteEvent(e) ==
    /\ events[e] # NoRow
    /\ LET ss == SessionsOf(e)
           ts == UNION {TicketTypesOf(s) : s \in ss}
           c1 == SendAll(cache, {[id |-> t, session |-> [event_id |-> e]] : t \in ts},
                         "ticket_type")
           c2 == SendAll(c1, {[id |-> s, event_id |-> e] : s \in ss}, "session")
       IN  /\ events' = [events EXCEPT ![e] = NoRow]
           /\ sessions' = [s \in SessionIds |-> IF s \in ss THEN NoRow ELSE sessions[s]]
           /\ ticket_types' = [t \in TicketTypeIds |->
                                  IF t \in ts THEN NoRow ELSE ticket_types[t]]
           /\ cache' = invalidate_event_cache(c2, [id |-> e])
           /\ superseded' = Supersede(PrescribedEvent(e) \cup (IF ss = {} THEN {} ELSE PrescribedSession(e)))
    /\ UNCHANGED last

SaveSession(s, e, starts) ==
    /\ events[e] # NoRow
    /\ sessions' = [sessions EXCEPT ![s] = [event |-> e, starts_at |-> starts]]
    /\ cache' = invalidate_session_cache(cache, [id |-> s, event_id |-> e])
    /\ superseded' = Supersede(PrescribedSession(e))
    /\ UNCHANGED <<events, ticket_types, last>>

DeleteSession(s) ==
    /\ sessions[s] # NoRow
    /\ LET e == sessions[s].event
           ts == TicketTypesOf(s)
           c1 == SendAll(cache, {[id |-> t, session |-> [event_id |-> e]] : t \in ts},
                         "ticket_type")
       IN  /\ sessions' = [sessions EXCEPT ![s] = NoRow]
           /\ ticket_types' = [t \in TicketTypeIds |->
                                  IF t \in ts THEN NoRow ELSE ticket_types[t]]
           /\ cache' = invalidate_session_cache(c1, [id |-> s, event_id |-> e])
           /\ superseded' = Supersede(PrescribedSession(e))
    /\ UNCHANGED <<events, last>>

SaveTicketType(t, s, quantity) ==
    /\ sessions[s] # NoRow
    /\ ticket_types' = [ticket_types EXCEPT ![t] = [session |-> s, quantity |-> quantity]]
    /\ cache' = invalidate_ticket_type_cache(
                    cache, [id |-> t, session |-> [event_id |-> sessions[s].event]])
    /\ superseded' = Supersede(PrescribedTicketType(sessions[s].event))
    /\ UNCHANGED <<events, sessions, last>>

DeleteTicketType(t) ==
    /\ ticket_types[t] # NoRow
    /\ LET e == sessions[ticket_types[t].session].event
       IN  /\ ticket_types' = [ticket_types EXCEPT ![t] = NoRow]
           /\ cache' = invalidate_ticket_type_cache(
                           cache, [id |-> t, session |-> [event_id |-> e]])
           /\ superseded' = Supersede(PrescribedTicketType(e))
    /\ UNCHANGED <<events, sessions, last>>


(***************************************************************************)
(* The shared cache (django.core.cache.cache).  Nothing in events/ writes  *)
(* it; a client of the same cache stores under a key what the tables hold  *)
(* for it at that moment, and the test fixture clears it.                  *)
(***************************************************************************)
Cached == {k \in Keys : cache[k].hit}

CacheSet(k) ==
    /\ Cardinality(Cached \cup {k}) <= MaxCacheEntries
    /\ \E v \in TableAnswers(k) : cache' = [cache EXCEPT ![k] = Hit(v)]
    /\ superseded' = superseded \ {k}
    /\ UNCHANGED <<events, sessions, ticket_types, last>>

clear_cache ==
    /\ Cached # {}
    /\ cache' = [k \in Keys |-> Miss]
    /\ superseded' = {}
    /\ UNCHANGED <<events, sessions, ticket_types, last>>

(***************************************************************************)
(* events/services/event_service.py: EventService.  Each method body is    *)
(* `raise NotImplementedError`: no parsing, no cache access, no store      *)
(* call.                                                                   *)
(***************************************************************************)
NotImplementedError == [kind |-> "raised", exc |-> "NotImplementedError"]

\* A list_events that empties the cache before raising (mutant).
list_events_evicting ==
    /\ last' = [op |-> "list_events", raw |-> "-", outcome |-> NotImplementedError]
    /\ cache' = [k \in Keys |-> Miss]
    /\ superseded' = {}
    /\ UNCHANGED <<events, sessions, ticket_types>>

list_events ==
    /\ last' = [op |-> "list_events", raw |-> "-", outcome |-> NotImplementedError]
    /\ UNCHANGED <<events, sessions, ticket_types, cache, superseded>>

\* A get_event that deletes the row it was asked for (mutant).
get_event_deleting(event_id) ==
    /\ last' = [op |-> "get_event", raw |-> event_id, outcome |-> NotImplementedError]
    /\ events' = [e \in EventIds |->
                     IF ~Parsed[event_id].raises /\ e \in NamedRows[event_id]
                     THEN NoRow ELSE events[e]]
    /\ UNCHANGED <<sessions, ticket_types, cache, superseded>>

get_event(event_id) ==
    /\ last' = [op |-> "get_event", raw |-> event_id, outcome |-> NotImplementedError]
    /\ UNCHANGED <<events, sessions, ticket_types, cache, superseded>>

get_sessions_for_event(event_id) ==
    /\ last' = [op |-> "get_sessions_for_event", raw |-> event_id,
                outcome |-> NotImplementedError]
    /\ UNCHANGED <<events, sessions, ticket_types, cache, superseded>>

(***************************************************************************)
(* The system.                                                             *)
(***************************************************************************)
Init ==
    /\ events = [e \in EventIds |-> NoRow]
    /\ sessions = [s \in SessionIds |-> NoRow]
    /\ ticket_types = [t \in TicketTypeIds |-> NoRow]
    /\ cache = [k \in Keys |-> Miss]
    /\ superseded = {}
    /\ last = [op |-> "none", raw |-> "-", outcome |-> [kind |-> "none"]]

Next ==
    \/ \E e \in EventIds, name \in Names : SaveEvent(e, name)
    \/ \E e \in EventIds : DeleteEvent(e)
    \/ \E s \in SessionIds, e \in EventIds, starts \in Times : SaveSession(s, e, starts)
    \/ \E s \in SessionIds : DeleteSession(s)
    \/ \E t \in TicketTypeIds, s \in SessionIds, q \in Quantities : SaveTicketType(t, s, q)
    \/ \E t \in TicketTypeIds : DeleteTicketType(t)
    \/ \E k \in Keys : CacheSet(k)
    \/ clear_cache
    \/ list_events
    \/ \E raw \in RawIds : get_event(raw)
    \/ \E raw \in RawIds : get_sessions_for_event(raw)

Spec == Init /\ [][Next]_vars


(***************************************************************************)
(* Vocabulary of the claims: how an operation ends, and what a raw         *)
(* identifier names.                                                       *)
(***************************************************************************)
Ok(v) == [kind |-> "ok", value |-> v]
Err(code) == [kind |-> "error", code |-> code]

ErrorCode == {"EVENT_NOT_FOUND", "SESSION_NOT_FOUND", "INVALID_EVENT_ID"}

WellFormed(raw) == ~Parsed[raw].raises
Named(raw) == NamedRows[raw]

Exists(e) == events[e] # NoRow

EventMutation(e) == (\E name \in Names : SaveEvent(e, name)) \/ DeleteEvent(e)

SessionMutation(e) ==
    \/ \E s \in SessionIds, starts \in Times : SaveSession(s, e, starts)
    \/ \E s \in SessionsOf(e) : DeleteSession(s)

TicketTypeMutation(e) ==
    \/ \E t \in TicketTypeIds, s \in SessionsOf(e), q \in Quantities : SaveTicketType(t, s, q)
    \/ \E t \in TicketTypeIds :
          /\ ticket_types[t] # NoRow
          /\ ticket_types[t].session \in SessionsOf(e)
          /\ DeleteTicketType(t)

(***************************************************************************)
(* C1.  Once events:{id} has been populated and the event has then been    *)
(* updated and its receiver has run, every get_event(id) that starts       *)
(* afterwards returns the event as the table now holds it.                 *)
(***************************************************************************)
C1_GetEventReflectsUpdate ==
    [][\A raw \in RawIds : \A e \in EventIds :
          (/\ get_event(raw)
           /\ WellFormed(raw) /\ e \in Named(raw)
           /\ Exists(e)
           /\ EventKey(e) \in superseded)
          => last'.outcome = Ok(Event(e))]_vars

(***************************************************************************)
(* C2.  A service read of a key that starts when every mutation has        *)
(* returned either misses and stores and returns what the tables hold, or  *)
(* hits an entry written after the last invalidation of that key and       *)
(* returns it.                                                             *)
(***************************************************************************)
ReadThrough(k) ==
    IF cache[k].hit
    THEN /\ k \notin superseded
         /\ last'.outcome = Ok(cache[k].value)
    ELSE \E v \in TableAnswers(k) :
            /\ cache'[k] = Hit(v)
            /\ last'.outcome = Ok(v)

C2_ReadAfterInvalidation ==
    [][/\ list_events => ReadThrough(ListKey)
       /\ \A raw \in RawIds : \A e \in EventIds :
             (WellFormed(raw) /\ e \in Named(raw) /\ Exists(e))
             => /\ get_event(raw) => ReadThrough(EventKey(e))
                /\ get_sessions_for_event(raw) => ReadThrough(SessionsKey(e))]_vars

(***************************************************************************)
(* C3.  When a save or delete of an entity returns, the keys prescribed    *)
(* for it are absent from the cache: events:list and events:{E} for an     *)
(* Event, events:{E}:sessions for a Session of E and for a TicketType      *)
(* whose session belongs to E.                                             *)
(***************************************************************************)
C3_PrescribedKeysAbsent ==
    [][\A e \in EventIds :
          /\ EventMutation(e) => \A k \in PrescribedEvent(e) : ~cache'[k].hit
          /\ SessionMutation(e) => \A k \in PrescribedSession(e) : ~cache'[k].hit
          /\ TicketTypeMutation(e) => \A k \in PrescribedTicketType(e) : ~cache'[k].hit]_vars

(***************************************************************************)
(* C4.  Once events:{E}:sessions is cached and a ticket type under a       *)
(* session of E has then been saved, a later get_sessions_for_event(E)     *)
(* returns the sessions with the ticket type's quantity as the table now   *)
(* holds it.                                                               *)
(***************************************************************************)
C4_SessionsReflectTicketTypeUpdate ==
    [][\A raw \in RawIds : \A e \in EventIds : \A t \in TicketTypeIds :
          (/\ get_sessions_for_event(raw)
           /\ WellFormed(raw) /\ e \in Named(raw)
           /\ Exists(e)
           /\ ticket_types[t] # NoRow
           /\ ticket_types[t].session \in SessionsOf(e)
           /\ SessionsKey(e) \in superseded)
          => /\ last'.outcome.kind = "ok"
             /\ \E i \in DOMAIN last'.outcome.value :
                   TicketType(t) \in last'.outcome.value[i].ticket_types]_vars

(***************************************************************************)
(* C5.  get_event with a well-formed id, on a cache miss: EVENT_NOT_FOUND  *)
(* when no row has that id; otherwise the event with that id, which is     *)
(* also stored under events:{id}.                                          *)
(***************************************************************************)
C5_GetEventOnMiss ==
    [][\A raw \in RawIds :
          (get_event(raw) /\ WellFormed(raw))
          => /\ (\A e \in Named(raw) : ~Exists(e) /\ ~cache[EventKey(e)].hit)
                => /\ last'.outcome = Err("EVENT_NOT_FOUND")
                   /\ cache' = cache
             /\ \A e \in Named(raw) :
                   (Exists(e) /\ ~cache[EventKey(e)].hit)
                   => /\ last'.outcome = Ok(Event(e))
                      /\ last'.outcome.value.id = e
                      /\ cache'[EventKey(e)] = Hit(Event(e))]_vars

(***************************************************************************)
(* C6.  A raw id that EventId.from_string rejects makes get_event and      *)
(* get_sessions_for_event fail with INVALID_EVENT_ID, whatever the cache   *)
(* and the tables hold.                                                    *)
(***************************************************************************)
C6_InvalidIdRejected ==
    [][\A raw \in RawIds :
          ((get_event(raw) \/ get_sessions_for_event(raw)) /\ ~WellFormed(raw))
          => last'.outcome = Err("INVALID_EVENT_ID")]_vars

(***************************************************************************)
(* C7.  get_sessions_for_event with a well-formed id: EVENT_NOT_FOUND      *)
(* when the event does not exist; an empty sequence when it exists and     *)
(* has no sessions.                                                        *)
(***************************************************************************)
C7_SessionsNotFoundOrEmpty ==
    [][\A raw \in RawIds :
          (get_sessions_for_event(raw) /\ WellFormed(raw))
          => /\ (\A e \in Named(raw) : ~Exists(e))
                => last'.outcome = Err("EVENT_NOT_FOUND")
             /\ \A e \in Named(raw) :
                   (Exists(e) /\ SessionsOf(e) = {} /\ ~cache[SessionsKey(e)].hit)
                   => last'.outcome = Ok(<<>>)]_vars

(***************************************************************************)
(* C8.  list_events is read-through on events:list: on a hit it returns    *)
(* the cached value and leaves the cache alone; on a miss it returns what  *)
(* the event table holds and stores it under events:list.                  *)
(***************************************************************************)
C8_ListEventsReadThrough ==
    [][list_events
       => IF cache[ListKey].hit
          THEN /\ last'.outcome = Ok(cache[ListKey].value)
               /\ cache' = cache
          ELSE \E v \in TableAnswers(ListKey) :
                  /\ last'.outcome = Ok(v)
                  /\ cache' = [cache EXCEPT ![ListKey] = Hit(v)]]_vars

(***************************************************************************)
(* C9.  Every service call ends in a success value or in one typed error   *)
(* of the closed set; the codes produced are INVALID_EVENT_ID and          *)
(* EVENT_NOT_FOUND only, and list_events produces no error.                *)
(***************************************************************************)
C9_OutcomeIsValueOrTypedError ==
    last.op # "none"
    => /\ last.outcome.kind \in {"ok", "error"}
       /\ last.outcome.kind = "error"
          => /\ last.outcome.code \in ErrorCode
             /\ last.outcome.code \in {"INVALID_EVENT_ID", "EVENT_NOT_FOUND"}
             /\ last.op # "list_events"

(***************************************************************************)
(* C10.  list_events returns the empty sequence when the event table is    *)
(* empty and otherwise all events by created_at descending, also when the  *)
(* result is served from an entry no event mutation has superseded.        *)
(***************************************************************************)
C10_ListEventsNewestFirst ==
    [][(list_events /\ ~(cache[ListKey].hit /\ ListKey \in superseded))
       => /\ last'.outcome.kind = "ok"
          /\ Present(events) = {} => last'.outcome.value = <<>>
          /\ Len(last'.outcome.value) = Cardinality(Present(events))
          /\ \A i, j \in DOMAIN last'.outcome.value :
                i < j => /\ last'.outcome.value[i].created_at
                            >= last'.outcome.value[j].created_at
                         /\ last'.outcome.value[i].id # last'.outcome.value[j].id]_vars


(***************************************************************************)
(* C11.  For an existing event, on a cache miss, get_sessions_for_event    *)
(* returns exactly that event's sessions by starts_at ascending, each with *)
(* the ticket types whose session it is.                                   *)
(***************************************************************************)
C11_SessionsOrderedWithTicketTypes ==
    [][\A raw \in RawIds : \A e \in EventIds :
          (/\ get_sessions_for_event(raw)
           /\ WellFormed(raw) /\ e \in Named(raw)
           /\ Exists(e)
           /\ ~cache[SessionsKey(e)].hit)
          => /\ last'.outcome.kind = "ok"
             /\ {last'.outcome.value[i].id : i \in DOMAIN last'.outcome.value}
                   = SessionsOf(e)
             /\ Len(last'.outcome.value) = Cardinality(SessionsOf(e))
             /\ \A i, j \in DOMAIN last'.outcome.value :
                   i < j => last'.outcome.value[i].starts_at
                               <= last'.outcome.value[j].starts_at
             /\ \A i \in DOMAIN last'.outcome.value :
                   last'.outcome.value[i].ticket_types
                      = {TicketType(t) : t \in TicketTypesOf(last'.outcome.value[i].id)}]_vars

(***************************************************************************)
(* C12.  Two raw ids that EventId.from_string parses to the same UUID make *)
(* the service use the same cache key, events:{id} or events:{id}:sessions *)
(* with the canonical lowercase hyphenated id, which is the key the        *)
(* receivers are to invalidate for that event.                             *)
(***************************************************************************)
KeyText(k) ==
    IF k = ListKey THEN <<"events:list">>
    ELSE IF Len(k) = 2 THEN <<"events:">> \o Hyphenated(Uuid(KeyEvent(k)))
    ELSE <<"events:">> \o Hyphenated(Uuid(KeyEvent(k))) \o <<":sessions">>

UsesKey(k, canonical, suffix) ==
    /\ cache'[k].hit
    /\ \A k2 \in Keys \ {k} : cache'[k2] = cache[k2]
    /\ KeyText(k) = <<"events:">> \o canonical \o suffix

C12_SameUuidSameKey ==
    [][\A raw1, raw2 \in RawIds : \A e \in EventIds :
          (/\ WellFormed(raw1) /\ WellFormed(raw2)
           /\ Parsed[raw1].value = Parsed[raw2].value
           /\ e \in Named(raw2)
           /\ Exists(e)
           /\ Cached = {})
          => /\ get_event(raw1)
                => /\ UsesKey(EventKey(e), Hyphenated(Parsed[raw2].value), <<>>)
                   /\ EventKey(e) \in PrescribedEvent(e)
             /\ get_sessions_for_event(raw1)
                => /\ UsesKey(SessionsKey(e), Hyphenated(Parsed[raw2].value), <<":sessions">>)
                   /\ SessionsKey(e) \in PrescribedSession(e)]_vars


(***************************************************************************)
(* events/domain/value_objects.py: Money and Capacity.                     *)
(*                                                                         *)
(* A Decimal is a sign, a coefficient and an exponent (its value is        *)
(* (-1)^sign * coef * 10^exp), or an infinity, or NaN.                     *)
(***************************************************************************)
Finite(sign, coef, exp) == [kind |-> "finite", sign |-> sign, coef |-> coef, exp |-> exp]
Infinity(sign) == [kind |-> "inf", sign |-> sign, coef |-> 0, exp |-> 0]
NaN == [kind |-> "nan", sign |-> 0, coef |-> 0, exp |-> 0]

Decimals ==
    {Finite(sign, coef, exp) :
        sign \in 0..1, coef \in 0..MaxCoefficient, exp \in (0 - MaxScale)..MaxExponent}
    \cup {Infinity(0), Infinity(1), NaN}

Ints == (0 - MaxCapacity)..MaxCapacity

Raised(exc) == [kind |-> "raised", exc |-> exc]

\* Decimal.__lt__(self, 0): comparing NaN raises InvalidOperation.
DecimalLtZero(d) ==
    [raises |-> d.kind = "nan",
     value |-> IF d.kind = "finite" THEN d.sign = 1 /\ d.coef # 0 ELSE d.sign = 1]

\* The mutant of Money: `<=` for `<`.
MoneyRejectsZero(amount) ==
    IF amount.kind = "nan" THEN Raised("InvalidOperation")
    ELSE IF DecimalLtZero(amount).value \/ (amount.kind = "finite" /\ amount.coef = 0)
    THEN Raised("ValueError")
    ELSE Ok([amount |-> amount])

\* Money.__post_init__
Money(amount) ==
    IF DecimalLtZero(amount).raises THEN Raised("InvalidOperation")
    ELSE IF DecimalLtZero(amount).value THEN Raised("ValueError")
    ELSE Ok([amount |-> amount])

\* Capacity.__post_init__
Capacity(value) ==
    IF value < 0 THEN Raised("ValueError") ELSE Ok([value |-> value])

RECURSIVE Pow10(_)
Pow10(n) == IF n = 0 THEN 1 ELSE 10 * Pow10(n - 1)

DigitChar(d) == <<"0", "1", "2", "3", "4", "5", "6", "7", "8", "9">>[d + 1]

RECURSIVE IntText(_)
IntText(n) == IF n < 10 THEN <<DigitChar(n)>> ELSE IntText(n \div 10) \o <<DigitChar(n % 10)>>

\* format(d, ".2f"): the amount in hundredths, rounded half to even.
Hundredths(d) ==
    IF d.exp >= 0 - 2 THEN d.coef * Pow10(d.exp + 2)
    ELSE LET divisor == Pow10(0 - d.exp - 2)
             q == d.coef \div divisor
             r == d.coef % divisor
         IN  IF 2 * r > divisor \/ (2 * r = divisor /\ q % 2 = 1) THEN q + 1 ELSE q

Format2f(d) ==
    LET minus == IF d.sign = 1 THEN <<"-">> ELSE <<>>
    IN  CASE d.kind = "nan" -> <<"N", "a", "N">>
          [] d.kind = "inf" -> minus \o <<"I", "n", "f", "i", "n", "i", "t", "y">>
          [] OTHER ->
               minus \o IntText(Hundredths(d) \div 100) \o <<".">>
                   \o <<DigitChar((Hundredths(d) % 100) \div 10)>>
                   \o <<DigitChar(Hundredths(d) % 10)>>

\* Money.__str__
Money_str(self) == Format2f(self.amount)

NewMoney(amount) ==
    /\ last' = [op |-> "Money", raw |-> amount, outcome |-> Money(amount)]
    /\ UNCHANGED <<events, sessions, ticket_types, cache, superseded>>

StrMoney ==
    /\ last.op = "Money"
    /\ last.outcome.kind = "ok"
    /\ last' = [op |-> "Money.__str__", raw |-> last.raw,
                outcome |-> Ok(Money_str(last.outcome.value))]
    /\ UNCHANGED <<events, sessions, ticket_types, cache, superseded>>

NewCapacity(value) ==
    /\ last' = [op |-> "Capacity", raw |-> value, outcome |-> Capacity(value)]
    /\ UNCHANGED <<events, sessions, ticket_types, cache, superseded>>

NextValueObjects ==
    \/ \E amount \in Decimals : NewMoney(amount)
    \/ StrMoney
    \/ \E value \in Ints : NewCapacity(value)

SpecValueObjects == Init /\ [][NextValueObjects]_vars

(***************************************************************************)
(* C13.  Money(amount) fails for every amount < 0 and succeeds for every   *)
(* amount >= 0; Capacity(value) fails for every value < 0 and succeeds     *)
(* otherwise; zero is accepted by both, and no instance holds a negative   *)
(* value.                                                                  *)
(***************************************************************************)
Signed(d) == IF d.sign = 1 THEN 0 - d.coef ELSE d.coef

Negative(d) == (d.kind = "inf" /\ d.sign = 1) \/ (d.kind = "finite" /\ Signed(d) < 0)
NonNegative(d) == (d.kind = "inf" /\ d.sign = 0) \/ (d.kind = "finite" /\ Signed(d) >= 0)

C13_NonNegativeValueObjects ==
    /\ last.op = "Money"
       => /\ Negative(last.raw) => last.outcome = Raised("ValueError")
          /\ NonNegative(last.raw) => last.outcome = Ok([amount |-> last.raw])
          /\ last.outcome.kind = "ok" => ~Negative(last.outcome.value.amount)
    /\ last.op = "Capacity"
       => /\ last.raw < 0 => last.outcome = Raised("ValueError")
          /\ last.raw >= 0 => last.outcome = Ok([value |-> last.raw])
          /\ last.outcome.kind = "ok" => last.outcome.value.value >= 0

C13_ZeroMoneyAccepted ==
    /\ last.op = "Money"
    /\ last.raw = Finite(0, 0, 0)
    /\ last.outcome.kind = "ok"

(***************************************************************************)
(* C14.  The string of every constructed Money has exactly two fractional  *)
(* digits.                                                                 *)
(***************************************************************************)
TwoFractionalDigits(text) ==
    /\ Len(text) >= 4
    /\ text[Len(text) - 2] = "."
    /\ \A i \in 1..Len(text) :
          \/ text[i] \in HexLower \ {"a", "b", "c", "d", "e", "f"}
          \/ i = Len(text) - 2
          \/ (i = 1 /\ text[i] = "-")

C14_TwoFractionalDigits ==
    last.op = "Money.__str__" => TwoFractionalDigits(last.outcome.value)


(***************************************************************************)
(* C15.  Whenever no call and no mutation is in progress, every entry in   *)
(* the cache equals what the store returns for its key.  Every action of   *)
(* the system is a whole call, so every state is such a state.             *)
(***************************************************************************)
StoreReturns(k) ==
    IF k = ListKey \/ Len(k) = 2 THEN TableAnswers(k)
    ELSE {[i \in DOMAIN o |-> Session(o[i])] : o \in SessionOrderings(KeyEvent(k))}

C15_CacheAgreesWithStore ==
    \A k \in Keys : cache[k].hit => cache[k].value \in StoreReturns(k)

(***************************************************************************)
(* C16.  get_sessions_for_event checks that the event exists before it     *)
(* looks at the cache: for a deleted event it fails with EVENT_NOT_FOUND   *)
(* even while events:{E}:sessions is still cached, and the entry is not    *)
(* returned.                                                               *)
(***************************************************************************)
C16_DeletedEventNotServedFromCache ==
    [][\A raw \in RawIds : \A e \in EventIds :
          (/\ get_sessions_for_event(raw)
           /\ WellFormed(raw) /\ e \in Named(raw)
           /\ ~Exists(e)
           /\ cache[SessionsKey(e)].hit)
          => /\ last'.outcome = Err("EVENT_NOT_FOUND")
             /\ last'.outcome # Ok(cache[SessionsKey(e)].value)]_vars

(***************************************************************************)
(* C17.  Calls that miss on the same key while the tables stay as they are *)
(* all return the store's value and leave it under the key: a call on a    *)
(* key that follows another call on that key and still finds the key       *)
(* absent returns what the tables hold, and the key then holds the value   *)
(* it returned.                                                            *)
(***************************************************************************)
ServiceCallOn(k) ==
    IF k = ListKey THEN list_events
    ELSE \E raw \in RawIds :
            /\ WellFormed(raw) /\ KeyEvent(k) \in Named(raw)
            /\ IF Len(k) = 2 THEN get_event(raw) ELSE get_sessions_for_event(raw)

PreviousCallOn(k) ==
    IF k = ListKey THEN last.op = "list_events"
    ELSE /\ last.op = (IF Len(k) = 2 THEN "get_event" ELSE "get_sessions_for_event")
         /\ WellFormed(last.raw)
         /\ KeyEvent(k) \in Named(last.raw)

C17_RepeatedMissesAgree ==
    [][\A k \in Keys :
          (/\ PreviousCallOn(k)
           /\ ~cache[k].hit
           /\ TableAnswers(k) # {}
           /\ ServiceCallOn(k))
          => /\ last'.outcome.kind = "ok"
             /\ last'.outcome.value \in TableAnswers(k)
             /\ cache'[k] = Hit(last'.outcome.value)]_vars

(***************************************************************************)
(* C18.  A call that fails leaves the cache as it was, and the failure is  *)
(* not remembered: get_event for an absent event fails with                *)
(* EVENT_NOT_FOUND and changes no entry, and a get_event for the same id   *)
(* after the event has been saved returns that event.                      *)
(***************************************************************************)
C18_FailureNotCached ==
    [][\A raw \in RawIds : \A e \in EventIds :
          (get_event(raw) /\ WellFormed(raw) /\ e \in Named(raw))
          => /\ (~Exists(e) /\ ~cache[EventKey(e)].hit)
                => (last'.outcome.kind = "error" /\ cache' = cache)
             /\ (/\ Exists(e)
                 /\ last.op = "get_event" /\ last.raw = raw
                 /\ last.outcome.kind # "ok"
                 /\ ~cache[EventKey(e)].hit)
                => last'.outcome = Ok(Event(e))]_vars

(***************************************************************************)
(* C19.  Over the operations of the service and of the persistence layer,  *)
(* an entry appears only in a service call on its key, an entry disappears *)
(* only in a mutation whose receivers are prescribed to invalidate its     *)
(* key, and no service call removes an entry.  (CacheSet and clear_cache   *)
(* are not operations of either.)                                          *)
(***************************************************************************)
ServiceCall ==
    \/ list_events
    \/ \E raw \in RawIds : get_event(raw) \/ get_sessions_for_event(raw)

Mutation == \E e \in EventIds : EventMutation(e) \/ SessionMutation(e) \/ TicketTypeMutation(e)

Invalidates(k) ==
    \E e \in EventIds :
       \/ EventMutation(e) /\ k \in PrescribedEvent(e)
       \/ DeleteEvent(e) /\ SessionsOf(e) # {} /\ k \in PrescribedSession(e)
       \/ SessionMutation(e) /\ k \in PrescribedSession(e)
       \/ TicketTypeMutation(e) /\ k \in PrescribedTicketType(e)

C20_OtherKeysUntouched ==
    [][\A e \in EventIds :
          /\ \A k \in Keys \ PrescribedEvent(e) :
                cache'[k] = cache[k] \/ ~EventMutation(e)
          /\ \A k \in Keys \ PrescribedSession(e) :
                cache'[k] = cache[k] \/ ~SessionMutation(e)
          /\ \A k \in Keys \ PrescribedTicketType(e) :
                cache'[k] = cache[k] \/ ~TicketTypeMutation(e)]_vars

C20_SessionsKeySurvivesEventDelete ==
    \E e \in EventIds : cache[SessionsKey(e)].hit /\ ~Exists(e)

(***************************************************************************)
(* C21.  No service call, whether it returns or fails, changes the tables: *)
(* events, sessions and ticket types are the same before and after every   *)
(* list_events, get_event and get_sessions_for_event, and a step that      *)
(* changes a table is a save or a delete of the persistence layer.         *)
(***************************************************************************)
C21_ServiceNeverWritesStore ==
    [][/\ (events' = events /\ sessions' = sessions /\ ticket_types' = ticket_types)
          \/ (~ServiceCall /\ Mutation)
       /\ last' # last
          => UNCHANGED <<events, sessions, ticket_types>>]_vars

C21_CalledWithRowsPresent ==
    /\ last.op \in {"get_event", "get_sessions_for_event"}
    /\ WellFormed(last.raw)
    /\ \E e \in Named(last.raw) :
          /\ Exists(e)
          /\ SessionsOf(e) # {}
          /\ \E s \in SessionsOf(e) : TicketTypesOf(s) # {}

====
